---- MODULE Spec2Model ----
(***************************************************************************)
(* Model of the Image2GB exporter (src/image_export.h): extraction of the  *)
(* 8x8 tiles of an indexed image, their 2bpp planar encoding, and the      *)
(* removal of duplicate tiles with the tilemap that results.               *)
(***************************************************************************)
EXTENDS Integers, Naturals, Sequences, FiniteSets, TLC

\* ---------------------------------------------------------------- constants
IMAGE2GB_TILE_SIZE == 8
IMAGE2GB_IMAGE_TILES_VRAM_LIMIT == 256

IMAGE2GB_IMAGE_SIZE_MIN == IMAGE2GB_TILE_SIZE

IMAGE2GB_IMAGE_SIZE_MAX == 256

IMAGE2GB_IMAGE_COLORS == 4

\* Bounds of the model: the largest number of tiles (UItileWidth*UItileHeight)
\* of an exported image, and the number of export calls made in one process.
MaxTiles == 3
MaxExports == 2

TilePixels == IMAGE2GB_TILE_SIZE * IMAGE2GB_TILE_SIZE
Pixels == 0 .. (TilePixels - 1)
Rows == 0 .. (IMAGE2GB_TILE_SIZE - 1)
Positions == 0 .. (MaxTiles - 1)

\* ------------------------------------------------------------ bit operations
\* bit n of x
Bit(x, n) == (x \div (2 ^ n)) % 2

\* x | (b << n) for a one-bit value b (0 or 1)
OrShifted(x, b, n) == IF (b = 0) \/ (Bit(x, n) = 1) THEN x ELSE x + (2 ^ n)

\* truncation of a value stored into a uint16_t
U16(x) == x % 65536

\* ------------------------------------------------------------------ DataTile
\* typedef struct DataTile { uint16_t row[8]; gboolean duplicate; }
\* A static DataTile starts zeroed.
ZeroRow == [r \in Rows |-> 0]

ZeroDataTile == [row |-> ZeroRow, duplicate |-> FALSE]

\* --------------------------------------------------- image2gb_convert_tile
\* UClowBit = pixel & 0x1
LowBit(v) == v % 2

\* UChighBit = (pixel & 0x2) >> 1
HighBit(v) == (v \div 2) % 2

\* position of the low bit in the row word: (16 - UCbitPair)
LowShiftReversed(UCbitPair) == 7 + UCbitPair
LowShift(UCbitPair) == 16 - UCbitPair

\* position of the high bit in the row word: (8 - UCbitPair)
HighShiftReversed(UCbitPair) == UCbitPair - 1
HighShift(UCbitPair) == 8 - UCbitPair

\* The body of the loop "for (char pixel = 0; pixel < 64; pixel++)" and its
\* increment: cs holds the 8 row words of the DataTile, UCbitPair, UCtileRow
\* and pixel.
ConvertPixel(POimageTile, cs) ==
    LET UClowBit == LowBit(POimageTile[cs.pixel])
        UChighBit == HighBit(POimageTile[cs.pixel])
        withLow == U16(OrShifted(cs.row[cs.UCtileRow], UClowBit, LowShift(cs.UCbitPair)))
        withHigh == U16(OrShifted(withLow, UChighBit, HighShift(cs.UCbitPair)))
    IN  IF cs.UCbitPair = 8
        THEN [row |-> [cs.row EXCEPT ![cs.UCtileRow] = withHigh],
              UCbitPair |-> 1,
              UCtileRow |-> cs.UCtileRow + 1,
              pixel |-> cs.pixel + 1]
        ELSE [row |-> [cs.row EXCEPT ![cs.UCtileRow] = withHigh],
              UCbitPair |-> cs.UCbitPair + 1,
              UCtileRow |-> cs.UCtileRow,
              pixel |-> cs.pixel + 1]

RECURSIVE ConvertLoop(_, _)
\* the loop, from the loop state cs to its exit
ConvertLoop(POimageTile, cs) ==
    IF cs.pixel < 64 THEN ConvertLoop(POimageTile, ConvertPixel(POimageTile, cs)) ELSE cs

\* the conversion that assigns the row words instead of ORing the bits in
image2gb_convert_tile_assign(POimageTile, POdataTile) ==
    [POdataTile EXCEPT !.row =
        ConvertLoop(POimageTile,
                    [row |-> ZeroRow, UCbitPair |-> 1, UCtileRow |-> 0, pixel |-> 0]).row]

\* image2gb_convert_tile(POimageTile, POdataTile): the DataTile after the call
image2gb_convert_tile(POimageTile, POdataTile) ==
    [POdataTile EXCEPT !.row =
        ConvertLoop(POimageTile,
                    [row |-> POdataTile.row, UCbitPair |-> 1, UCtileRow |-> 0, pixel |-> 0]).row]

\* ------------------------------------------------------------ the GIMP image
\* The pixels of the tile of the worked example (colour indices 0-3).
ExampleTile ==
    << 1, 0, 3, 0, 2, 1, 0, 3,
       0, 1, 3, 2, 1, 0, 2, 0,
       0, 1, 2, 0, 3, 1, 1, 2,
       0, 3, 0, 2, 3, 1, 0, 2,
       3, 1, 0, 3, 0, 2, 3, 0,
       0, 2, 1, 3, 0, 3, 2, 1,
       0, 3, 3, 2, 1, 0, 1, 2,
       3, 0, 2, 3, 1, 0, 2, 2 >>

\* Pixel i of the numbered block k: one colour with one pixel of another colour,
\* a different block for every k below 768.
NumberedPixel(k, i) ==
    LET background == (k \div 64) \div 3
        value == (background + 1 + ((k \div 64) % 3)) % 4
    IN  IF i = k % 64 THEN value ELSE background

\* The 8x8 pixel blocks the images of the model are assembled from: the worked
\* example, a block of colour 3 and the numbered blocks (pixel i of block b).
BlockPixel(b, i) ==
    CASE b.name = "example" -> ExampleTile[i + 1]
      [] b.name = "three" -> 3
      [] b.name = "numbered" -> NumberedPixel(b.number, i)

Blocks == {[name |-> "example", number |-> 0], [name |-> "three", number |-> 0]}

\* An image: width and height in pixels, and the block at each 8x8 cell,
\* cells in row-major order.
Shapes == {s \in (1 .. MaxTiles) \X (1 .. MaxTiles) : s[1] * s[2] <= MaxTiles}

Images ==
    UNION {[width : {IMAGE2GB_TILE_SIZE * s[1]},
            height : {IMAGE2GB_TILE_SIZE * s[2]},
            cells : [0 .. (s[1] * s[2] - 1) -> Blocks]] : s \in Shapes}

NoImage == [width |-> 0, height |-> 0, cells |-> << >>]

gimp_image_get_width(POimage) == POimage.width

gimp_image_get_height(POimage) == POimage.height

\* The colour index of the pixel at (x, y) of the image's drawable.
PixelAt(POimage, x, y) ==
    BlockPixel(POimage.cells[(y \div IMAGE2GB_TILE_SIZE) * (POimage.width \div IMAGE2GB_TILE_SIZE)
                             + (x \div IMAGE2GB_TILE_SIZE)],
               (y % IMAGE2GB_TILE_SIZE) * IMAGE2GB_TILE_SIZE + (x % IMAGE2GB_TILE_SIZE))

\* gegl_buffer_get on the 8x8 rectangle at (x, y): the 64 pixels, row by row
gegl_buffer_get(POimage, x, y) ==
    [i \in Pixels |-> PixelAt(POimage, x + (i % IMAGE2GB_TILE_SIZE), y + (i \div IMAGE2GB_TILE_SIZE))]

\* ------------------------------------------------ image2gb_read_image_tiles
RECURSIVE ReadColLoop(_, _, _)
\* the loop over col < UItileWidth, for one row of tiles; rs holds the tiles
\* and the two loop variables
ReadColLoop(POimage, rs, tileWidth) ==
    IF rs.col >= tileWidth THEN rs
    ELSE
        LET OimageTile == gegl_buffer_get(POimage, IMAGE2GB_TILE_SIZE * rs.col,
                                          IMAGE2GB_TILE_SIZE * rs.row)
            at == (rs.row * tileWidth) + rs.col
        IN  ReadColLoop(POimage,
                        [rs EXCEPT !.tiles[at] = image2gb_convert_tile(OimageTile, rs.tiles[at]),
                                   !.col = rs.col + 1],
                        tileWidth)

RECURSIVE ReadLoop(_, _, _, _)
\* the loop over row < UItileHeight
ReadLoop(POimage, rs, tileWidth, tileHeight) ==
    IF rs.row >= tileHeight THEN rs.tiles
    ELSE ReadLoop(POimage,
                  [ReadColLoop(POimage, [rs EXCEPT !.col = 0], tileWidth) EXCEPT !.row = rs.row + 1],
                  tileWidth, tileHeight)

\* the extraction that also marks every tile it writes as not duplicate
image2gb_read_image_tiles_unflag(POimage, tiles, tileWidth, tileHeight) ==
    LET read == ReadLoop(POimage, [tiles |-> tiles, row |-> 0, col |-> 0],
                         tileWidth, tileHeight)
    IN  [p \in DOMAIN read |->
            IF p < tileWidth * tileHeight
            THEN [read[p] EXCEPT !.duplicate = FALSE]
            ELSE read[p]]

\* AdataTiles after image2gb_read_image_tiles succeeded
image2gb_read_image_tiles(POimage, tiles, tileWidth, tileHeight) ==
    ReadLoop(POimage, [tiles |-> tiles, row |-> 0, col |-> 0], tileWidth, tileHeight)

\* ------------------------------------------------ image2gb_check_duplicates
\* The state of the function: the two static arrays, UItileCount, its locals
\* and the loop variable "tile" of the scan.
\* unsigned subtraction; a negative value stands for the wrapped result
USub(a, b) == a - b

\* "tile" initial values of the tilemap: AtileMap[tile] = tile
InitialTileMap(map, count) ==
    [p \in DOMAIN map |-> IF p < count THEN p ELSE map[p]]

\* the row by row comparison of two tiles (the loop over char row)
RECURSIVE CompareRowsFrom(_, _, _)
CompareRowsFrom(a, b, row) ==
    IF row >= 8 THEN FALSE
    ELSE IF a.row[row] # b.row[row] THEN FALSE
    ELSE IF row = (8 - 1) THEN TRUE
    ELSE CompareRowsFrom(a, b, row + 1)

BisDuplicateNever(a, b) == FALSE
BisDuplicate(a, b) == CompareRowsFrom(a, b, 0)

\* AtileMap[tile] = (tile - UIpreviousDuplicates)
AnchorIndexUncorrected(tile, UIpreviousDuplicates) == tile
AnchorIndex(tile, UIpreviousDuplicates) == USub(tile, UIpreviousDuplicates)

\* AtileMap[checktile] = AtileMap[tile]
DuplicateIndexOwn(map, tile, checktile) == checktile
DuplicateIndex(map, tile, checktile) == map[tile]

CheckTileSkipFlagged(st, anchor, checktile) ==
    IF st.tiles[checktile].duplicate = FALSE
       /\ BisDuplicate(st.tiles[anchor], st.tiles[checktile])
    THEN [st EXCEPT !.tiles[checktile].duplicate = TRUE,
                    !.dup = st.dup + 1,
                    !.map[checktile] = DuplicateIndex(st.map, anchor, checktile),
                    !.cmp = st.cmp + 1]
    ELSE st
\* the body of the loop over checktile: the rows of the anchor and of checktile
\* are compared (cmp counts the comparisons), and a tile equal to the anchor is
\* flagged, counted and given the anchor's index
CheckTile(st, anchor, checktile) ==
    IF BisDuplicate(st.tiles[anchor], st.tiles[checktile])
    THEN [st EXCEPT !.tiles[checktile].duplicate = TRUE,
                    !.dup = st.dup + 1,
                    !.map[checktile] = DuplicateIndex(st.map, anchor, checktile),
                    !.cmp = st.cmp + 1]
    ELSE [st EXCEPT !.cmp = st.cmp + 1]

RECURSIVE CheckRange(_, _, _, _)
\* the iterations checktile = first .. last - 1 of the loop, in increasing
\* order, while checktile < UItileCount; the range is halved to keep the
\* evaluation shallow
CheckRange(st, anchor, first, last) ==
    IF ~(first < st.count) \/ first >= last THEN st
    ELSE IF last = first + 1 THEN CheckTile(st, anchor, first)
    ELSE LET middle == (first + last) \div 2
         IN  CheckRange(CheckRange(st, anchor, first, middle), anchor, middle, last)

\* the loop "for (checktile = (tile + 1); checktile < UItileCount; checktile++)"
CheckLoop(st, anchor, checktile) == CheckRange(st, anchor, checktile, st.count)

DedupInitOneRow(tiles, map, tileWidth, tileHeight) ==
    [tiles |-> tiles,
     map |-> InitialTileMap(map, tileWidth),
     count |-> tileWidth,
     dup |-> 0,
     prev |-> 0,
     tile |-> 0,
     cmp |-> 0]
\* the declarations and the initialisation of UItileCount and of the tilemap
DedupInit(tiles, map, tileWidth, tileHeight) ==
    [tiles |-> tiles,
     map |-> InitialTileMap(map, tileWidth * tileHeight),
     count |-> tileWidth * tileHeight,
     dup |-> 0,
     prev |-> 0,
     tile |-> 0,
     cmp |-> 0]

\* the first tile an anchor is compared with: checktile = (tile + 1)
FirstCheckTileZero(tile) == 0
FirstCheckTile(tile) == tile + 1

DedupAnchorUncounted(st) ==
    IF st.tiles[st.tile].duplicate = TRUE
    THEN [st EXCEPT !.tile = st.tile + 1]
    ELSE LET placed == [st EXCEPT !.map[st.tile] = AnchorIndex(st.tile, st.prev)]
             checked == CheckLoop(placed, st.tile, FirstCheckTile(st.tile))
         IN  [checked EXCEPT !.tile = st.tile + 1]
\* one iteration of the scan "for (tile = 0; tile < UItileCount; tile++)"
DedupAnchor(st) ==
    IF st.tiles[st.tile].duplicate = TRUE
    THEN [st EXCEPT !.prev = st.prev + 1, !.tile = st.tile + 1]
    ELSE LET placed == [st EXCEPT !.map[st.tile] = AnchorIndex(st.tile, st.prev)]
             checked == CheckLoop(placed, st.tile, FirstCheckTile(st.tile))
         IN  [checked EXCEPT !.tile = st.tile + 1]

\* UItileCount = UItileCount - UIduplicateCount
DedupEndNoSubtraction(st) == st
DedupEnd(st) == [st EXCEPT !.count = USub(st.count, st.dup)]

RECURSIVE DedupScan(_)
DedupScan(st) == IF st.tile < st.count THEN DedupScan(DedupAnchor(st)) ELSE st

\* the whole of image2gb_check_duplicates
image2gb_check_duplicates(tiles, map, tileWidth, tileHeight) ==
    DedupEnd(DedupScan(DedupInit(tiles, map, tileWidth, tileHeight)))

\* ------------------------------------------------- image2gb_write_tile_data
RECURSIVE WriteTileLoop(_, _, _)
\* the rows of the tiles written, in order: tiles flagged duplicate are skipped
WriteTileLoop(tiles, total, tile) ==
    IF tile >= total THEN << >>
    ELSE IF tiles[tile].duplicate = TRUE THEN WriteTileLoop(tiles, total, tile + 1)
    ELSE << tiles[tile].row >> \o WriteTileLoop(tiles, total, tile + 1)

image2gb_write_tile_data(tiles, tileWidth, tileHeight) ==
    WriteTileLoop(tiles, tileWidth * tileHeight, 0)

\* the test that writes the comma after the last tile as well
TrailingCommaOffByOne(UIprintCount, tileCount) == UIprintCount <= tileCount

\* "if (UIprintCount < UItileCount)": the line of a tile ends with a comma
\* unless UItileCount tiles have been printed
TrailingComma(UIprintCount, tileCount) == UIprintCount < tileCount

RECURSIVE WriteTileLines(_, _, _, _, _)
\* the lines image2gb_write_tile_data prints from position tile on, UIprintCount
\* tiles being printed already: one line per tile not flagged duplicate, with
\* its 8 row words and whether a comma ends it
WriteTileLines(tiles, total, tileCount, tile, UIprintCount) ==
    IF tile >= total THEN << >>
    ELSE IF tiles[tile].duplicate = TRUE
    THEN WriteTileLines(tiles, total, tileCount, tile + 1, UIprintCount)
    ELSE << [row |-> tiles[tile].row,
             comma |-> TrailingComma(UIprintCount + 1, tileCount)] >>
             \o WriteTileLines(tiles, total, tileCount, tile + 1, UIprintCount + 1)

\* image2gb_write_tile_data: the tile lines of the array, in order
image2gb_write_tile_lines(tiles, tileWidth, tileHeight, tileCount) ==
    WriteTileLines(tiles, tileWidth * tileHeight, tileCount, 0, 0)

\* image2gb_write_tilemap: the entries written, in order
image2gb_write_tilemap(map, tileWidth, tileHeight) ==
    [p \in 1 .. (tileWidth * tileHeight) |-> map[p - 1]]

\* -------------------------------------------------------------------- state
VARIABLES
    AdataTiles,            \* static DataTile AdataTiles[]
    AtileMap,              \* static unsigned int AtileMap[]
    UItileWidth,           \* static unsigned int UItileWidth
    UItileHeight,          \* static unsigned int UItileHeight
    UItileCount,           \* static unsigned int UItileCount
    pc,                    \* position inside image2gb_export_image ("idle" before the
                           \* first call, "read_failed" and "returned" after a return)
    POimage,               \* the image of the export call in progress
    tile,                  \* loop variable of the scan of image2gb_check_duplicates
    UIduplicateCount,      \* local of image2gb_check_duplicates
    UIpreviousDuplicates,  \* local of image2gb_check_duplicates
    EreturnValue,          \* status returned by image2gb_export_image
    warned,                \* the VRAM warning was reported by this call
    written,               \* the files image2gb_write_files has written
    writeFailure,          \* the place where image2gb_write_files failed in this call
    compared,              \* the number of tile comparisons image2gb_check_duplicates has made
    calls,                 \* number of export calls made by this process
    entryTiles,            \* AdataTiles as they were when the call was entered
    cvImageTile,           \* image2gb_convert_tile alone: its ImageTile
    cvBefore,              \* ... its DataTile before the call
    cvAfter,               \* ... its DataTile after the call
    cvPc,                  \* ... "call" before, "return" after
    runProcedure,          \* the run procedure called: "menu", "save" or "none"
    runPc,                 \* position inside the run procedure
    runImage,              \* its argument POimage
    runMode,               \* its argument ErunMode
    runStatus,             \* the PDB status it returns
    checked                \* what check_image returned in this run

vars == << AdataTiles, AtileMap, UItileWidth, UItileHeight, UItileCount, pc, POimage,
           tile, UIduplicateCount, UIpreviousDuplicates, EreturnValue, warned, written,
           writeFailure, compared, calls, entryTiles, cvImageTile, cvBefore, cvAfter, cvPc,
           runProcedure, runPc, runImage, runMode, runStatus, checked >>

exportVars == << AdataTiles, AtileMap, UItileWidth, UItileHeight, UItileCount, pc, POimage,
                 tile, UIduplicateCount, UIpreviousDuplicates, EreturnValue, warned, written,
                 writeFailure, compared, calls, entryTiles >>

convertVars == << cvImageTile, cvBefore, cvAfter, cvPc >>

runVars == << runProcedure, runPc, runImage, runMode, runStatus, checked >>

\* Static storage is zero-initialised when the process starts.
InitExport ==
    /\ AdataTiles = [p \in Positions |-> ZeroDataTile]
    /\ AtileMap = [p \in Positions |-> 0]
    /\ UItileWidth = 0
    /\ UItileHeight = 0
    /\ UItileCount = 0
    /\ pc = "idle"
    /\ POimage = NoImage
    /\ tile = 0
    /\ UIduplicateCount = 0
    /\ UIpreviousDuplicates = 0
    /\ EreturnValue = "none"
    /\ warned = FALSE
    /\ written = "nothing"
    /\ writeFailure = "none"
    /\ compared = 0
    /\ calls = 0
    /\ entryTiles = [p \in Positions |-> ZeroDataTile]

InitConvertIdle ==
    /\ cvImageTile = [i \in Pixels |-> 0]
    /\ cvBefore = ZeroDataTile
    /\ cvAfter = ZeroDataTile
    /\ cvPc = "return"

\* no run procedure has been called
InitRunIdle ==
    /\ runProcedure = "none"
    /\ runPc = "idle"
    /\ runImage = NoImage
    /\ runMode = "none"
    /\ runStatus = "none"
    /\ checked = "not called"

Init == InitExport /\ InitConvertIdle /\ InitRunIdle

\* ---------------------------------------------------- image2gb_export_image
\* Entry of image2gb_export_image: the image statistics.
ExportCall(image) ==
    /\ pc \in {"idle", "read_failed", "returned"}
    /\ calls < MaxExports
    /\ calls' = calls + 1
    /\ POimage' = image
    /\ entryTiles' = AdataTiles
    /\ UItileWidth' = gimp_image_get_width(image) \div IMAGE2GB_TILE_SIZE
    /\ UItileHeight' = gimp_image_get_height(image) \div IMAGE2GB_TILE_SIZE
    /\ EreturnValue' = "none"
    /\ warned' = FALSE
    /\ written' = "nothing"
    /\ writeFailure' = "none"
    /\ pc' = "read_image_tiles"
    /\ UNCHANGED << AdataTiles, AtileMap, UItileCount, tile, UIduplicateCount,
                    UIpreviousDuplicates, compared >>
    /\ UNCHANGED convertVars

\* image2gb_export_image called on its own, outside a run procedure
ExportEnter(image) == ExportCall(image) /\ UNCHANGED runVars

\* the export carrying on with the deduplication whatever the read returned
AfterReadNoAbort(status) == "check_duplicates"

\* The test of the status image2gb_read_image_tiles returned: anything but
\* success makes image2gb_export_image return it at once.
AfterRead(status) ==
    IF status /= "GIMP_PDB_SUCCESS" THEN "read_failed" ELSE "check_duplicates"

\* image2gb_read_image_tiles and the test of its status: it fails when there is
\* no selected drawable, and the export returns; otherwise every tile of the
\* image is converted into AdataTiles.
ReadImageTiles(Adrawables) ==
    /\ pc = "read_image_tiles"
    /\ IF Adrawables
       THEN /\ AdataTiles' = image2gb_read_image_tiles(POimage, AdataTiles, UItileWidth, UItileHeight)
            /\ EreturnValue' = "GIMP_PDB_SUCCESS"
       ELSE /\ AdataTiles' = AdataTiles
            /\ EreturnValue' = "GIMP_PDB_EXECUTION_ERROR"
    /\ pc' = AfterRead(EreturnValue')
    /\ UNCHANGED << AtileMap, UItileWidth, UItileHeight, UItileCount, POimage, tile,
                    UIduplicateCount, UIpreviousDuplicates, warned, written, writeFailure,
                    compared, calls, entryTiles >>
    /\ UNCHANGED convertVars
    /\ UNCHANGED runVars

\* The state of image2gb_check_duplicates, as a record of the variables it uses.
DedupState ==
    [tiles |-> AdataTiles, map |-> AtileMap, count |-> UItileCount,
     dup |-> UIduplicateCount, prev |-> UIpreviousDuplicates, tile |-> tile,
     cmp |-> compared]

SetDedupState(st) ==
    /\ AdataTiles' = st.tiles
    /\ AtileMap' = st.map
    /\ UItileCount' = st.count
    /\ UIduplicateCount' = st.dup
    /\ UIpreviousDuplicates' = st.prev
    /\ tile' = st.tile
    /\ compared' = st.cmp

\* image2gb_check_duplicates: its locals, UItileCount and the initial tilemap
CheckDuplicatesInit ==
    /\ pc = "check_duplicates"
    /\ SetDedupState(DedupInit(AdataTiles, AtileMap, UItileWidth, UItileHeight))
    /\ pc' = "scan"
    /\ UNCHANGED << UItileWidth, UItileHeight, POimage, EreturnValue, warned, written,
                    writeFailure, calls, entryTiles >>
    /\ UNCHANGED convertVars
    /\ UNCHANGED runVars

\* image2gb_check_duplicates: one iteration of the scan over the anchors
CheckDuplicatesAnchor ==
    /\ pc = "scan"
    /\ tile < UItileCount
    /\ SetDedupState(DedupAnchor(DedupState))
    /\ pc' = "scan"
    /\ UNCHANGED << UItileWidth, UItileHeight, POimage, EreturnValue, warned, written,
                    writeFailure, calls, entryTiles >>
    /\ UNCHANGED convertVars
    /\ UNCHANGED runVars

\* image2gb_check_duplicates: the end of the scan and the final UItileCount
CheckDuplicatesEnd ==
    /\ pc = "scan"
    /\ ~(tile < UItileCount)
    /\ SetDedupState(DedupEnd(DedupState))
    /\ pc' = "write"
    /\ UNCHANGED << UItileWidth, UItileHeight, POimage, EreturnValue, warned, written,
                    writeFailure, calls, entryTiles >>
    /\ UNCHANGED convertVars
    /\ UNCHANGED runVars

\* UItileCount > IMAGE2GB_IMAGE_TILES_VRAM_LIMIT, on unsigned values
ExceedsVramFromLimit(count) == (count < 0) \/ (count >= IMAGE2GB_IMAGE_TILES_VRAM_LIMIT)
ExceedsVram(count) == (count < 0) \/ (count > IMAGE2GB_IMAGE_TILES_VRAM_LIMIT)

\* The places where image2gb_write_files can fail.
WriteFailures == {"none", "open_header", "close_header", "open_source", "close_source"}

\* what image2gb_write_files has written when it returns
WrittenFiles(failure) ==
    CASE failure = "open_header" -> "nothing"
      [] failure \in {"close_header", "open_source"} -> "header"
      [] failure \in {"close_source", "none"} -> "header and source"

\* the status image2gb_write_files returns
image2gb_write_files(failure) ==
    IF failure = "none" THEN "GIMP_PDB_SUCCESS" ELSE "GIMP_PDB_EXECUTION_ERROR"

\* EreturnValue = image2gb_write_files(ErunMode); return EreturnValue;
ExportReturnValueWarningFails(writeStatus) ==
    IF ExceedsVram(UItileCount) THEN "GIMP_PDB_EXECUTION_ERROR" ELSE writeStatus
ExportReturnValue(writeStatus) == writeStatus

\* The rest of image2gb_export_image: the VRAM warning and the output files.
ExportWrite(failure) ==
    /\ pc = "write"
    /\ warned' = ExceedsVram(UItileCount)
    /\ writeFailure' = failure
    /\ written' = WrittenFiles(failure)
    /\ EreturnValue' = ExportReturnValue(image2gb_write_files(failure))
    /\ pc' = "returned"
    /\ UNCHANGED << AdataTiles, AtileMap, UItileWidth, UItileHeight, UItileCount, POimage,
                    tile, UIduplicateCount, UIpreviousDuplicates, compared, calls,
                    entryTiles >>
    /\ UNCHANGED convertVars
    /\ UNCHANGED runVars

Next ==
    \/ \E image \in Images : ExportEnter(image)
    \/ \E Adrawables \in BOOLEAN : ReadImageTiles(Adrawables)
    \/ CheckDuplicatesInit
    \/ CheckDuplicatesAnchor
    \/ CheckDuplicatesEnd
    \/ \E failure \in WriteFailures : ExportWrite(failure)

Spec == Init /\ [][Next]_vars

\* the first export of the process
FirstExport(image) == pc = "idle" /\ ExportEnter(image)

\* One export, the first of the process.
NextFirst ==
    \/ \E image \in Images : FirstExport(image)
    \/ \E Adrawables \in BOOLEAN : ReadImageTiles(Adrawables)
    \/ CheckDuplicatesInit
    \/ CheckDuplicatesAnchor
    \/ CheckDuplicatesEnd
    \/ \E failure \in WriteFailures : ExportWrite(failure)

SpecFirst == Init /\ [][NextFirst]_vars

\* The loops of image2gb_check_duplicates are sequential code: once entered
\* they keep running until they end.
SpecFirstLive ==
    /\ SpecFirst
    /\ WF_vars(CheckDuplicatesInit)
    /\ WF_vars(CheckDuplicatesAnchor)
    /\ WF_vars(CheckDuplicatesEnd)

\* ------------------------------------- image2gb_convert_tile on its own
\* An ImageTile of one colour with one pixel of another colour.
ProbeTile(background, at, value) == [i \in Pixels |-> IF i = at THEN value ELSE background]

\* every row is the column pattern 0 1 2 3 0 1 2 3
PatternTile == [i \in Pixels |-> i % 4]

ConvertImageTiles ==
    {ProbeTile(b, at, v) : b \in 0 .. 3, at \in Pixels, v \in 0 .. 3}
        \cup {[i \in Pixels |-> ExampleTile[i + 1]], PatternTile}

\* The DataTile handed to the call: zeroed, or holding the bits of an earlier tile.
ConvertDataTiles ==
    {ZeroDataTile, [row |-> [r \in Rows |-> 65280], duplicate |-> FALSE]}

InitConvert ==
    /\ cvImageTile \in ConvertImageTiles
    /\ cvBefore \in ConvertDataTiles
    /\ cvAfter = cvBefore
    /\ cvPc = "call"

ConvertTile ==
    /\ cvPc = "call"
    /\ cvAfter' = image2gb_convert_tile(cvImageTile, cvBefore)
    /\ cvPc' = "return"
    /\ UNCHANGED << cvImageTile, cvBefore >>
    /\ UNCHANGED exportVars
    /\ UNCHANGED runVars

\* the call of image2gb_convert_tile on its own, no export in progress
ConvertInit == InitExport /\ InitConvert /\ InitRunIdle

SpecConvert == ConvertInit /\ [][ConvertTile]_vars

\* ------------------------- image2gb_export_image around the VRAM tile limit
\* The grid of the images exported here, in tiles, and how far from the limit
\* of 256 the number of their different tiles goes.
AdvisoryTileWidth == 17

AdvisoryTileHeight == 16

AdvisorySpread == 1

AdvisoryPositions == 0 .. (AdvisoryTileWidth * AdvisoryTileHeight - 1)

\* An image whose first n tiles are n different numbered blocks, and whose
\* other tiles repeat the last of them.
AdvisoryImage(n) ==
    [width |-> IMAGE2GB_TILE_SIZE * AdvisoryTileWidth,
     height |-> IMAGE2GB_TILE_SIZE * AdvisoryTileHeight,
     cells |-> [p \in AdvisoryPositions |->
                   [name |-> "numbered", number |-> IF p < n THEN p ELSE n - 1]]]

AdvisoryImages ==
    {AdvisoryImage(n) : n \in (IMAGE2GB_IMAGE_TILES_VRAM_LIMIT - AdvisorySpread)
                              .. (IMAGE2GB_IMAGE_TILES_VRAM_LIMIT + AdvisorySpread)}

\* The process at its start, the static arrays cut to the grid above.
AdvisoryInit ==
    /\ AdataTiles = [p \in AdvisoryPositions |-> ZeroDataTile]
    /\ AtileMap = [p \in AdvisoryPositions |-> 0]
    /\ UItileWidth = 0
    /\ UItileHeight = 0
    /\ UItileCount = 0
    /\ pc = "idle"
    /\ POimage = NoImage
    /\ tile = 0
    /\ UIduplicateCount = 0
    /\ UIpreviousDuplicates = 0
    /\ EreturnValue = "none"
    /\ warned = FALSE
    /\ written = "nothing"
    /\ writeFailure = "none"
    /\ compared = 0
    /\ calls = 0
    /\ entryTiles = [p \in AdvisoryPositions |-> ZeroDataTile]
    /\ InitConvertIdle
    /\ InitRunIdle

NextAdvisory ==
    \/ \E image \in AdvisoryImages : FirstExport(image)
    \/ \E Adrawables \in BOOLEAN : ReadImageTiles(Adrawables)
    \/ CheckDuplicatesInit
    \/ CheckDuplicatesAnchor
    \/ CheckDuplicatesEnd
    \/ \E failure \in WriteFailures : ExportWrite(failure)

SpecAdvisory == AdvisoryInit /\ [][NextAdvisory]_vars

\* ------------------------------------- image2gb_run_menu, image2gb_run_save
\* gimp_image_get_palette and gimp_palette_get_color_count: the palette of an
\* image is NULL (indexed FALSE) or has a number of colours.
Palettes ==
    {[indexed |-> FALSE, colors |-> 0]}
        \cup {[indexed |-> TRUE, colors |-> n] :
                 n \in (IMAGE2GB_IMAGE_COLORS - 1) .. (IMAGE2GB_IMAGE_COLORS + 1)}

\* The widths and heights of the images handed to the run procedures: below the
\* minimum, the minimum, not a multiple of 8, two tiles, the maximum, above it.
RunSizes ==
    {IMAGE2GB_IMAGE_SIZE_MIN \div 2, IMAGE2GB_IMAGE_SIZE_MIN, IMAGE2GB_IMAGE_SIZE_MIN + 4,
     2 * IMAGE2GB_TILE_SIZE, IMAGE2GB_IMAGE_SIZE_MAX, IMAGE2GB_IMAGE_SIZE_MAX + IMAGE2GB_TILE_SIZE}

\* the number of 8-pixel cells that cover a pixels
CellsAcross(a) == (a + IMAGE2GB_TILE_SIZE - 1) \div IMAGE2GB_TILE_SIZE

\* The images handed to the run procedures: one tile wide or one tile high,
\* every cell the block of colour 3, with any of the palettes.
RunImages ==
    {[width |-> size[1], height |-> size[2],
      cells |-> [p \in 0 .. (CellsAcross(size[1]) * CellsAcross(size[2]) - 1) |->
                    [name |-> "three", number |-> 0]],
      palette |-> palette] :
        size \in {sz \in RunSizes \X RunSizes :
                      sz[1] = IMAGE2GB_IMAGE_SIZE_MIN \/ sz[2] = IMAGE2GB_IMAGE_SIZE_MIN},
        palette \in Palettes}

RunModes == {"GIMP_RUN_INTERACTIVE", "GIMP_RUN_NONINTERACTIVE"}

gimp_image_get_palette(image) == image.palette

\* check_image without the tests of the palette
check_image_size_only(image) ==
    IF \/ gimp_image_get_width(image) < IMAGE2GB_IMAGE_SIZE_MIN
       \/ gimp_image_get_width(image) > IMAGE2GB_IMAGE_SIZE_MAX
       \/ gimp_image_get_height(image) < IMAGE2GB_IMAGE_SIZE_MIN
       \/ gimp_image_get_height(image) > IMAGE2GB_IMAGE_SIZE_MAX
    THEN FALSE
    ELSE IF \/ (gimp_image_get_width(image) % IMAGE2GB_TILE_SIZE) # 0
            \/ (gimp_image_get_height(image) % IMAGE2GB_TILE_SIZE) # 0
    THEN FALSE
    ELSE TRUE
\* check_image: the size from 8 to 256, a multiple of 8, an indexed image of 4 colours
check_image(image) ==
    IF \/ gimp_image_get_width(image) < IMAGE2GB_IMAGE_SIZE_MIN
       \/ gimp_image_get_width(image) > IMAGE2GB_IMAGE_SIZE_MAX
       \/ gimp_image_get_height(image) < IMAGE2GB_IMAGE_SIZE_MIN
       \/ gimp_image_get_height(image) > IMAGE2GB_IMAGE_SIZE_MAX
    THEN FALSE
    ELSE IF \/ (gimp_image_get_width(image) % IMAGE2GB_TILE_SIZE) # 0
            \/ (gimp_image_get_height(image) % IMAGE2GB_TILE_SIZE) # 0
    THEN FALSE
    ELSE IF gimp_image_get_palette(image).indexed
    THEN IF gimp_image_get_palette(image).colors # IMAGE2GB_IMAGE_COLORS THEN FALSE ELSE TRUE
    ELSE FALSE

\* the static arrays cut to the widest image check_image accepts here
RunPositions == 0 .. ((IMAGE2GB_IMAGE_SIZE_MAX \div IMAGE2GB_TILE_SIZE) - 1)

\* The process at its start, before GIMP calls a run procedure.
RunInit ==
    /\ AdataTiles = [p \in RunPositions |-> ZeroDataTile]
    /\ AtileMap = [p \in RunPositions |-> 0]
    /\ UItileWidth = 0
    /\ UItileHeight = 0
    /\ UItileCount = 0
    /\ pc = "idle"
    /\ POimage = NoImage
    /\ tile = 0
    /\ UIduplicateCount = 0
    /\ UIpreviousDuplicates = 0
    /\ EreturnValue = "none"
    /\ warned = FALSE
    /\ written = "nothing"
    /\ writeFailure = "none"
    /\ compared = 0
    /\ calls = 0
    /\ entryTiles = [p \in RunPositions |-> ZeroDataTile]
    /\ InitConvertIdle
    /\ InitRunIdle

\* image2gb_run_menu up to check_image: exactly one drawable, and it is a layer
RunMenu(image, mode, IdrawablesCount, isLayer) ==
    /\ runPc = "idle"
    /\ runProcedure' = "menu"
    /\ runImage' = image
    /\ runMode' = mode
    /\ IF IdrawablesCount # 1 \/ ~isLayer
       THEN runStatus' = "GIMP_PDB_CALLING_ERROR" /\ runPc' = "returned"
       ELSE runStatus' = runStatus /\ runPc' = "check_image"
    /\ UNCHANGED checked
    /\ UNCHANGED exportVars
    /\ UNCHANGED convertVars

\* image2gb_run_save up to check_image
RunSave(image, mode) ==
    /\ runPc = "idle"
    /\ runProcedure' = "save"
    /\ runImage' = image
    /\ runMode' = mode
    /\ runPc' = "check_image"
    /\ UNCHANGED << runStatus, checked >>
    /\ UNCHANGED exportVars
    /\ UNCHANGED convertVars

\* "if (! check_image(POimage, ErunMode))" of both run procedures; run_menu
\* always shows the dialog, run_save in interactive mode only
RunCheckImage ==
    /\ runPc = "check_image"
    /\ IF ~check_image(runImage)
       THEN /\ checked' = "FALSE"
            /\ runStatus' = "GIMP_PDB_CALLING_ERROR"
            /\ runPc' = "returned"
       ELSE /\ checked' = "TRUE"
            /\ runStatus' = runStatus
            /\ runPc' = IF runProcedure = "menu" \/ runMode = "GIMP_RUN_INTERACTIVE"
                        THEN "show_dialog"
                        ELSE "load_parameters"
    /\ UNCHANGED << runProcedure, runImage, runMode >>
    /\ UNCHANGED exportVars
    /\ UNCHANGED convertVars

\* "if (! show_dialog(POprocedure, POconfig))": the user accepts or cancels
RunShowDialog(accepted) ==
    /\ runPc = "show_dialog"
    /\ IF ~accepted
       THEN runStatus' = "GIMP_PDB_CANCEL" /\ runPc' = "returned"
       ELSE runStatus' = runStatus /\ runPc' = "load_parameters"
    /\ UNCHANGED << runProcedure, runImage, runMode, checked >>
    /\ UNCHANGED exportVars
    /\ UNCHANGED convertVars

\* "if (! load_parameters(POconfig, ErunMode))": the parameters are valid or not
RunLoadParameters(valid) ==
    /\ runPc = "load_parameters"
    /\ IF ~valid
       THEN runStatus' = "GIMP_PDB_CALLING_ERROR" /\ runPc' = "returned"
       ELSE runStatus' = runStatus /\ runPc' = "export_image"
    /\ UNCHANGED << runProcedure, runImage, runMode, checked >>
    /\ UNCHANGED exportVars
    /\ UNCHANGED convertVars

\* the call image2gb_export_image(POimage, ErunMode)
RunExportImage ==
    /\ runPc = "export_image"
    /\ ExportCall(runImage)
    /\ runPc' = "exporting"
    /\ UNCHANGED << runProcedure, runImage, runMode, runStatus, checked >>

\* the run procedure returns the status of image2gb_export_image
RunReturn ==
    /\ runPc = "exporting"
    /\ pc \in {"read_failed", "returned"}
    /\ runStatus' = EreturnValue
    /\ runPc' = "returned"
    /\ UNCHANGED << runProcedure, runImage, runMode, checked >>
    /\ UNCHANGED exportVars
    /\ UNCHANGED convertVars

NextRun ==
    \/ \E image \in RunImages, mode \in RunModes, IdrawablesCount \in 0 .. 2, isLayer \in BOOLEAN :
          RunMenu(image, mode, IdrawablesCount, isLayer)
    \/ \E image \in RunImages, mode \in RunModes : RunSave(image, mode)
    \/ RunCheckImage
    \/ \E accepted \in BOOLEAN : RunShowDialog(accepted)
    \/ \E valid \in BOOLEAN : RunLoadParameters(valid)
    \/ RunExportImage
    \/ \E Adrawables \in BOOLEAN : ReadImageTiles(Adrawables)
    \/ CheckDuplicatesInit
    \/ CheckDuplicatesAnchor
    \/ CheckDuplicatesEnd
    \/ \E failure \in WriteFailures : ExportWrite(failure)
    \/ RunReturn

SpecRun == RunInit /\ [][NextRun]_vars

\* ============================================================== properties
\* tileCountTotal of the call in progress
TileCountTotal == UItileWidth * UItileHeight

\* the tile positions of the image of the call in progress
Used == 0 .. (TileCountTotal - 1)

\* image2gb_check_duplicates has run to its end in the current call
Deduplicated == pc \in {"write", "returned"}

\* no tile of the image was flagged duplicate when the call was entered
NoneFlaggedAtEntry == \A p \in Used : entryTiles[p].duplicate = FALSE

\* the tile buffers of the image were zeroed and unflagged when the call was entered
FreshAtEntry == \A p \in Used : entryTiles[p] = ZeroDataTile

\* positions i and j hold the same 8 row words
SameRows(i, j) == AdataTiles[i].row = AdataTiles[j].row

\* the canonical tile table: the tiles not flagged duplicate, in position order
CanonicalTileTable == image2gb_write_tile_data(AdataTiles, UItileWidth, UItileHeight)

\* the 8 row words of the encoding of the 8x8 block of tile position p
EncodedTile(image, p) ==
    LET tileWidth == image.width \div IMAGE2GB_TILE_SIZE
    IN  image2gb_convert_tile(gegl_buffer_get(image,
                                              IMAGE2GB_TILE_SIZE * (p % tileWidth),
                                              IMAGE2GB_TILE_SIZE * (p \div tileWidth)),
                              ZeroDataTile).row

\* C1: after an export that started from zeroed, unflagged tile buffers, the
\* entry TileMap[p] of the canonical tile table is the encoded tile of position
\* p, for every tile position p of the image.
Theorem_C1 ==
    (Deduplicated /\ FreshAtEntry) =>
        \A p \in Used :
            /\ AtileMap[p] >= 0
            /\ AtileMap[p] < Len(CanonicalTileTable)
            /\ CanonicalTileTable[AtileMap[p] + 1] = EncodedTile(POimage, p)

\* a fresh export of three tiles whose second is a copy of the first and whose
\* third is different: the third is entry 1 of a table of 2
Witness_C1 ==
    /\ pc = "returned"
    /\ FreshAtEntry
    /\ TileCountTotal = 3
    /\ AdataTiles[1].duplicate
    /\ ~AdataTiles[2].duplicate
    /\ AtileMap = (0 :> 0 @@ 1 :> 0 @@ 2 :> 1)
    /\ Len(CanonicalTileTable) = 2

\* pixel (r, c) of the ImageTile handed to image2gb_convert_tile
CvPixel(r, c) == cvImageTile[(r * IMAGE2GB_TILE_SIZE) + c]

RECURSIVE PlaneByte(_, _, _)
\* the plane byte of row r for bit b of the pixels (0 low, 1 high), columns c .. 7:
\* bit 7-c of the byte is bit b of pixel (r, c)
PlaneByte(r, b, c) ==
    IF c > 7 THEN 0
    ELSE (Bit(CvPixel(r, c), b) * (2 ^ (7 - c))) + PlaneByte(r, b, c + 1)

\* C2: a raw tile encoded into a zeroed DataTile has, in every row r, the word
\* (low_plane << 8) | high_plane, bit 7-c of each plane being the low or high
\* bit of pixel (r, c); the row 1 0 3 0 2 1 0 3 gives 0xA529.
Theorem_C2 ==
    (cvPc = "return" /\ cvBefore = ZeroDataTile) =>
        /\ \A r \in Rows : cvAfter.row[r] = (PlaneByte(r, 0, 0) * 256) + PlaneByte(r, 1, 0)
        /\ (\A c \in 0 .. 7 : CvPixel(0, c) = ExampleTile[c + 1]) => cvAfter.row[0] = 42281

\* the worked example has been encoded into a zeroed DataTile
Witness_C2 ==
    /\ cvPc = "return"
    /\ cvBefore = ZeroDataTile
    /\ cvImageTile = [i \in Pixels |-> ExampleTile[i + 1]]
    /\ cvAfter.row[0] = 42281
    /\ cvAfter.row[7] = 39091

\* the colour index read back from a row word at column c
DecodePixel(word, c) == (Bit(word, 7 - c) * 2) + Bit(word, 15 - c)

\* raw tiles whose encodings are compared with the one just computed
ComparedTiles ==
    {ProbeTile(b, at, v) : b \in {0, 3}, at \in {0, 7, 36, 63}, v \in 0 .. 3}
        \cup {[i \in Pixels |-> ExampleTile[i + 1]], PatternTile}

ComparedEncodings ==
    [t \in ComparedTiles |-> image2gb_convert_tile(t, ZeroDataTile).row]

\* C3: decoding a row word of a tile encoded into a zeroed DataTile gives back
\* the colour index of every pixel, so a tile with the same 8 row words is the
\* same tile pixel for pixel.
Theorem_C3 ==
    (cvPc = "return" /\ cvBefore = ZeroDataTile) =>
        /\ \A r \in Rows : \A c \in 0 .. 7 : DecodePixel(cvAfter.row[r], c) = CvPixel(r, c)
        /\ \A t \in ComparedTiles : (ComparedEncodings[t] = cvAfter.row) => (t = cvImageTile)

\* a tile of colour 0 with one pixel of colour 2 in its last row has been
\* encoded: only bit 4 of the high plane of row 7 is set
Witness_C3 ==
    /\ cvPc = "return"
    /\ cvBefore = ZeroDataTile
    /\ cvImageTile = ProbeTile(0, 59, 2)
    /\ cvAfter.row = [r \in Rows |-> IF r = 7 THEN 16 ELSE 0]

\* C4: after deduplication of tiles none of which was flagged beforehand, two
\* positions i < j with the same 8 row words have the same tilemap entry, and
\* exactly one tile of the canonical table has that content.
Theorem_C4 ==
    (Deduplicated /\ NoneFlaggedAtEntry) =>
        \A i \in Used : \A j \in Used :
            (i < j /\ SameRows(i, j)) =>
                /\ AtileMap[j] = AtileMap[i]
                /\ Cardinality({k \in 1 .. Len(CanonicalTileTable) :
                                   CanonicalTileTable[k] = AdataTiles[i].row}) = 1

\* positions 0 and 2 of three hold the same words, position 1 other words
Witness_C4 ==
    /\ Deduplicated
    /\ NoneFlaggedAtEntry
    /\ TileCountTotal = 3
    /\ SameRows(0, 2)
    /\ ~SameRows(0, 1)
    /\ AtileMap[2] = 0
    /\ AtileMap[1] = 1

\* the number of positions before i that are flagged duplicate
DuplicatesBefore(i) == Cardinality({p \in Used : p < i /\ AdataTiles[p].duplicate = TRUE})

\* C5: after deduplication of tiles none of which was flagged beforehand, the
\* tilemap entry of a position i not flagged duplicate is i minus the number of
\* flagged positions before i.
Theorem_C5 ==
    (Deduplicated /\ NoneFlaggedAtEntry) =>
        \A i \in Used :
            (AdataTiles[i].duplicate = FALSE) => (AtileMap[i] = i - DuplicatesBefore(i))

\* a position that is not a duplicate comes after a duplicate
Witness_C5 ==
    /\ Deduplicated
    /\ NoneFlaggedAtEntry
    /\ \E i \in Used : AdataTiles[i].duplicate = FALSE /\ DuplicatesBefore(i) = 1 /\ AtileMap[i] = i - 1

\* C6: after deduplication every tilemap entry of the image is an index into
\* the canonical tile table: 0 <= TileMap[p] < UItileCount.
Claim_C6 ==
    Deduplicated => \A p \in Used : (0 <= AtileMap[p]) /\ (AtileMap[p] < UItileCount)

\* what an export of the image gives as the first call of a fresh process: the
\* canonical tile table, the tilemap and UItileCount
FreshExport(image) ==
    LET tileWidth == gimp_image_get_width(image) \div IMAGE2GB_TILE_SIZE
        tileHeight == gimp_image_get_height(image) \div IMAGE2GB_TILE_SIZE
        read == image2gb_read_image_tiles(image, [p \in Positions |-> ZeroDataTile],
                                          tileWidth, tileHeight)
        st == image2gb_check_duplicates(read, [p \in Positions |-> 0], tileWidth, tileHeight)
    IN  [table |-> image2gb_write_tile_data(st.tiles, tileWidth, tileHeight),
         tilemap |-> image2gb_write_tilemap(st.map, tileWidth, tileHeight),
         count |-> st.count]

\* C7: the canonical tile table, the tilemap and UItileCount of an export call
\* are those of the same image exported as the first call of a fresh process,
\* whatever calls came before.
Claim_C7 ==
    (pc = "returned") =>
        [table |-> CanonicalTileTable,
         tilemap |-> image2gb_write_tilemap(AtileMap, UItileWidth, UItileHeight),
         count |-> UItileCount] = FreshExport(POimage)

\* the result of running image2gb_check_duplicates once more on the current state
SecondRun == image2gb_check_duplicates(AdataTiles, AtileMap, UItileWidth, UItileHeight)

\* C8: a second run of image2gb_check_duplicates over the tiles as the first
\* run left them gives the same tilemap, the same canonical tiles and the same
\* UItileCount.
Theorem_C8 ==
    Deduplicated =>
        /\ SecondRun.map = AtileMap
        /\ image2gb_write_tile_data(SecondRun.tiles, UItileWidth, UItileHeight) = CanonicalTileTable
        /\ \A p \in Used : SecondRun.tiles[p].duplicate = AdataTiles[p].duplicate
        /\ SecondRun.count = UItileCount

\* the first run found two duplicates among three tiles
Witness_C8 ==
    /\ Deduplicated
    /\ TileCountTotal = 3
    /\ UIduplicateCount = 2
    /\ UItileCount = 1
    /\ AdataTiles[1].duplicate
    /\ AdataTiles[2].duplicate

RECURSIVE FirstOccurrences(_)
\* the row words of the positions p .. tileCountTotal-1 that no earlier position equals
FirstOccurrences(p) ==
    IF p >= TileCountTotal THEN << >>
    ELSE IF \E i \in Used : i < p /\ SameRows(i, p) THEN FirstOccurrences(p + 1)
    ELSE << AdataTiles[p].row >> \o FirstOccurrences(p + 1)

\* C9: after deduplication of tiles none of which was flagged beforehand, a
\* position is flagged duplicate exactly when an earlier position has the same
\* 8 row words, and the canonical table is the first occurrence of each
\* content, in order.
Theorem_C9 ==
    (Deduplicated /\ NoneFlaggedAtEntry) =>
        /\ \A j \in Used :
              (AdataTiles[j].duplicate = TRUE) <=> (\E i \in Used : i < j /\ SameRows(i, j))
        /\ CanonicalTileTable = FirstOccurrences(0)

\* the second of three tiles has new content and the third repeats the first
Witness_C9 ==
    /\ Deduplicated
    /\ NoneFlaggedAtEntry
    /\ TileCountTotal = 3
    /\ ~AdataTiles[1].duplicate
    /\ AdataTiles[2].duplicate
    /\ SameRows(0, 2)
    /\ Len(CanonicalTileTable) = 2

\* C10: the canonical tile table never has more than tileCountTotal tiles, and
\* has exactly tileCountTotal if and only if no two positions of the image hold
\* the same 8 row words.
Claim_C10 ==
    Deduplicated =>
        /\ Len(CanonicalTileTable) <= TileCountTotal
        /\ (Len(CanonicalTileTable) = TileCountTotal)
              <=> (\A i \in Used : \A j \in Used : (i < j) => ~SameRows(i, j))

\* the positions of the image that are flagged duplicate
FlaggedPositions == {p \in Used : AdataTiles[p].duplicate = TRUE}

\* the distinct contents (8 row words) among the tiles of the image
DistinctContents == {AdataTiles[p].row : p \in Used}

\* C11: after deduplication of tiles none of which was flagged beforehand, the
\* final UItileCount is tileCountTotal minus the number of positions flagged
\* duplicate, which is the number of distinct tile contents.
Theorem_C11 ==
    (Deduplicated /\ NoneFlaggedAtEntry) =>
        /\ UItileCount = TileCountTotal - Cardinality(FlaggedPositions)
        /\ UItileCount = Cardinality(DistinctContents)

\* three tiles of two contents: one duplicate, UItileCount = 2
Witness_C11 ==
    /\ Deduplicated
    /\ NoneFlaggedAtEntry
    /\ TileCountTotal = 3
    /\ Cardinality(FlaggedPositions) = 1
    /\ Cardinality(DistinctContents) = 2
    /\ UItileCount = 2

\* C12: the export reports the VRAM warning exactly when UItileCount, as the
\* deduplication left it, is greater than 256: not at 256 or less.
Theorem_C12 ==
    (pc = "returned") => (warned <=> (UItileCount > IMAGE2GB_IMAGE_TILES_VRAM_LIMIT))

\* an export of 257 different tiles has returned and has warned
Witness_C12 ==
    /\ pc = "returned"
    /\ UItileCount = IMAGE2GB_IMAGE_TILES_VRAM_LIMIT + 1
    /\ warned

\* C13: the warning is not fatal: when UItileCount is greater than 256 the
\* export still calls image2gb_write_files, the tilemap, the flags, the tile
\* words and UItileCount stay as the deduplication left them, and the status
\* returned is the one image2gb_write_files returns.
Theorem_C13 ==
    [][(pc = "write" /\ UItileCount > IMAGE2GB_IMAGE_TILES_VRAM_LIMIT) =>
          /\ pc' = "returned"
          /\ warned'
          /\ written' = WrittenFiles(writeFailure')
          /\ EreturnValue' = image2gb_write_files(writeFailure')
          /\ AdataTiles' = AdataTiles
          /\ AtileMap' = AtileMap
          /\ UItileCount' = UItileCount]_vars

\* an export that warned has written both files and returned success
Witness_C13 ==
    /\ pc = "returned"
    /\ warned
    /\ UItileCount > IMAGE2GB_IMAGE_TILES_VRAM_LIMIT
    /\ writeFailure = "none"
    /\ written = "header and source"
    /\ EreturnValue = "GIMP_PDB_SUCCESS"

\* image2gb_read_image_tiles has succeeded in the current call
Extracted == pc \in {"check_duplicates", "scan", "write", "returned"}

\* the pixels of the 8x8 block of column col and row row of the grid: x in
\* 8*col .. 8*col+7, y in 8*row .. 8*row+7, in row-major order
BlockAt(image, col, row) ==
    [i \in Pixels |-> PixelAt(image,
                              IMAGE2GB_TILE_SIZE * col + (i % IMAGE2GB_TILE_SIZE),
                              IMAGE2GB_TILE_SIZE * row + (i \div IMAGE2GB_TILE_SIZE))]

\* C14: once the tiles are extracted, the tile stored at index row*(W/8)+col is
\* the encoding of the 8x8 block of column col and row row of the image, for
\* every cell of the grid, and the cells map one to one onto the indices
\* 0 .. tileCountTotal-1.
Claim_C14 ==
    Extracted =>
        /\ \A row \in 0 .. (UItileHeight - 1), col \in 0 .. (UItileWidth - 1) :
              AdataTiles[row * UItileWidth + col].row
                  = image2gb_convert_tile(BlockAt(POimage, col, row), ZeroDataTile).row
        /\ \A p \in Used :
              Cardinality({cell \in (0 .. (UItileHeight - 1)) \X (0 .. (UItileWidth - 1)) :
                              cell[1] * UItileWidth + cell[2] = p}) = 1

\* every bit set in the 8 row words enc is set in the row words of position p
HoldsEncoding(p, enc) ==
    \A words \in {enc} :
        \A r \in Rows, n \in 0 .. 15 :
            Bit(words[r], n) = 1 => Bit(AdataTiles[p].row[r], n) = 1

\* an export call is in progress or has returned
Entered == pc # "idle"

\* the grid of the current call is the one of its image
GridOfImage ==
    /\ UItileWidth = gimp_image_get_width(POimage) \div IMAGE2GB_TILE_SIZE
    /\ UItileHeight = gimp_image_get_height(POimage) \div IMAGE2GB_TILE_SIZE

\* the extraction has written the (W/8)*(H/8) positions of the grid and no other
ExtractedPositions ==
    /\ \A p \in Used : HoldsEncoding(p, EncodedTile(POimage, p))
    /\ \A p \in (DOMAIN AdataTiles) \ Used : AdataTiles[p] = entryTiles[p]

\* the scan has visited (W/8)*(H/8) positions, each one is counted as unique or
\* as duplicate, and the tilemap has (W/8)*(H/8) entries
DeduplicatedPositions ==
    /\ tile = TileCountTotal
    /\ UItileCount + UIduplicateCount = TileCountTotal
    /\ Len(image2gb_write_tilemap(AtileMap, UItileWidth, UItileHeight)) = TileCountTotal

\* a step taken inside an export call keeps the grid and the image
GridUnchanged ==
    (pc \in {"read_image_tiles", "check_duplicates", "scan", "write"}) =>
        (UItileWidth' = UItileWidth /\ UItileHeight' = UItileHeight /\ POimage' = POimage)

\* C15: for every image the number of tile positions extracted, deduplicated
\* and given a tilemap entry is (W/8)*(H/8), and UItileWidth and UItileHeight do
\* not change from the start of the extraction to the end of the export.
Theorem_C15 ==
    /\ [](Entered => GridOfImage)
    /\ [](pc = "check_duplicates" => ExtractedPositions)
    /\ [](Deduplicated => DeduplicatedPositions)
    /\ [][GridUnchanged]_vars

\* an export of a grid of one column and three rows has returned
Witness_C15 ==
    /\ pc = "returned"
    /\ gimp_image_get_width(POimage) = IMAGE2GB_TILE_SIZE
    /\ gimp_image_get_height(POimage) = 3 * IMAGE2GB_TILE_SIZE
    /\ tile = 3
    /\ Len(image2gb_write_tilemap(AtileMap, UItileWidth, UItileHeight)) = 3

\* the requirements on an exported image: width and height from 8 to 256 and
\* multiples of 8, an indexed image with exactly 4 colours
MeetsRequirements(image) ==
    /\ image.width \in 8 .. 256
    /\ image.height \in 8 .. 256
    /\ image.width % 8 = 0
    /\ image.height % 8 = 0
    /\ image.palette.indexed
    /\ image.palette.colors = 4

\* a step that enters image2gb_export_image
ExportBegins == pc # "read_image_tiles" /\ pc' = "read_image_tiles"

\* the export is entered from a run whose check_image returned TRUE
ExportAfterCheck == ExportBegins => (runPc = "export_image" /\ checked = "TRUE")

\* C16: in image2gb_run_menu and in image2gb_run_save, image2gb_export_image
\* is called only after check_image returned TRUE for the image of the run
\* (width and height from 8 to 256, multiples of 8, indexed with 4 colours);
\* when check_image fails the run returns a calling error and nothing is
\* exported.
Theorem_C16 ==
    /\ [][ExportAfterCheck]_vars
    /\ []((calls > 0) =>
             (checked = "TRUE" /\ MeetsRequirements(runImage) /\ POimage = runImage))
    /\ []((checked = "FALSE") =>
             /\ ~MeetsRequirements(runImage)
             /\ runPc = "returned"
             /\ runStatus = "GIMP_PDB_CALLING_ERROR"
             /\ calls = 0
             /\ pc = "idle")

\* image2gb_run_menu has exported an image of the maximum width, 256 pixels
Witness_C16 ==
    /\ runProcedure = "menu"
    /\ runPc = "returned"
    /\ checked = "TRUE"
    /\ calls = 1
    /\ runImage.width = 256
    /\ runStatus = "GIMP_PDB_SUCCESS"

\* Scenario B: a 16x8 image whose two tiles are of colour 3 only
ScenarioB ==
    [width |-> 16, height |-> 8, cells |-> [p \in 0 .. 1 |-> [name |-> "three", number |-> 0]]]

\* C17: after an export of the 16x8 image of two tiles of colour 3, entered
\* with zeroed buffers, UItileCount is 1, the tilemap is 0, 0 and the table has
\* one tile, whose 8 rows are 0xFFFF.
Theorem_C17 ==
    (Deduplicated /\ FreshAtEntry /\ POimage = ScenarioB) =>
        /\ UItileCount = 1
        /\ image2gb_write_tilemap(AtileMap, UItileWidth, UItileHeight) = << 0, 0 >>
        /\ CanonicalTileTable = << [r \in Rows |-> 65535] >>

\* the first export of the process is the one of Scenario B, and it has returned
Witness_C17 ==
    /\ pc = "returned"
    /\ calls = 1
    /\ FreshAtEntry
    /\ POimage = ScenarioB
    /\ UItileCount = 1
    /\ AdataTiles[1].duplicate = TRUE

\* Scenario C: every row of the raw tile is 0 1 2 3 0 1 2 3
ScenarioC ==
    \A r \in Rows, c \in 0 .. 7 : cvImageTile[(8 * r) + c] = << 0, 1, 2, 3, 0, 1, 2, 3 >>[c + 1]

\* C18: the tile whose rows are all 0 1 2 3 0 1 2 3, encoded into a zeroed
\* DataTile, has in every row the low plane 0x55, the high plane 0x33 and the
\* word 0x5533.
Theorem_C18 ==
    (cvPc = "return" /\ cvBefore = ZeroDataTile /\ ScenarioC) =>
        \A r \in Rows :
            /\ cvAfter.row[r] \div 256 = 85
            /\ cvAfter.row[r] % 256 = 51
            /\ cvAfter.row[r] = 21811

\* the tile of Scenario C has been encoded into a zeroed DataTile
Witness_C18 ==
    /\ cvPc = "return"
    /\ cvBefore = ZeroDataTile
    /\ ScenarioC
    /\ cvAfter.row[0] = 21811
    /\ cvAfter.row[7] = 21811
    /\ cvAfter.duplicate = FALSE

\* one iteration of the scan compares its anchor with fewer than n tiles
AnchorComparisons ==
    (pc = "scan") => (compared' >= compared /\ compared' - compared < TileCountTotal)

\* the comparisons made by the scan in progress or finished, against n(n-1)/2
TotalComparisons ==
    (pc \in {"scan", "write", "returned"}) =>
        2 * compared <= TileCountTotal * (TileCountTotal - 1)

\* C19: image2gb_check_duplicates on n tiles terminates, compares each anchor
\* with fewer than n other tiles, and makes at most n(n-1)/2 comparisons.
Theorem_C19 ==
    /\ [][AnchorComparisons]_vars
    /\ []TotalComparisons
    /\ ((pc = "check_duplicates") ~> (pc = "write"))

\* a scan of three tiles has ended after 3 comparisons, the most for n = 3
Witness_C19 ==
    /\ pc = "write"
    /\ TileCountTotal = 3
    /\ tile = 3
    /\ compared = 3

\* the positions before the anchor of the scan that are flagged duplicate
FlaggedBeforeAnchor == {p \in 0 .. (tile - 1) : AdataTiles[p].duplicate = TRUE}

\* the iteration of the scan on an anchor that is flagged duplicate
SkippedAnchor ==
    (pc = "scan" /\ tile < UItileCount /\ AdataTiles[tile].duplicate = TRUE) =>
        /\ AtileMap' = AtileMap
        /\ AdataTiles' = AdataTiles
        /\ UIpreviousDuplicates' = UIpreviousDuplicates + 1
        /\ tile' = tile + 1

\* C20: in a scan entered with no tile flagged, whenever the scan reaches a
\* position as anchor UIpreviousDuplicates is the number of positions before it
\* that are flagged duplicate; an anchor that is flagged is skipped, its
\* tilemap entry and every flag unchanged, and UIpreviousDuplicates grows by one.
Theorem_C20 ==
    /\ []((pc = "scan" /\ NoneFlaggedAtEntry) =>
             UIpreviousDuplicates = Cardinality(FlaggedBeforeAnchor))
    /\ [][SkippedAnchor]_vars

\* the scan has skipped the flagged anchor 1 and has reached position 2
Witness_C20 ==
    /\ pc = "scan"
    /\ NoneFlaggedAtEntry
    /\ tile = 2
    /\ AdataTiles[1].duplicate = TRUE
    /\ UIpreviousDuplicates = 1
    /\ AtileMap[1] = 0

\* the positions after the anchor that are not flagged duplicate when the
\* anchor's iteration begins
UnflaggedAfterAnchor ==
    {p \in (tile + 1) .. (UItileCount - 1) : AdataTiles[p].duplicate = FALSE}

\* the iteration of the scan on one anchor compares no flagged position: a
\* flagged anchor with nothing, another anchor with the later positions that
\* are not flagged when its iteration begins
FlaggedNeverCompared ==
    (pc = "scan" /\ tile < UItileCount /\ FreshAtEntry) =>
        compared' - compared =
            IF AdataTiles[tile].duplicate = TRUE
            THEN 0
            ELSE Cardinality(UnflaggedAfterAnchor)

\* C21: a position classified duplicate during deduplication is never again
\* compared content-wise with any tile, neither as the anchor of the scan nor
\* as the later position an anchor is compared with.
Claim_C21 == [][FlaggedNeverCompared]_vars

\* the step of image2gb_export_image in which image2gb_read_image_tiles fails:
\* the export returns, and the tiles, the tilemap and the counts are untouched
ReadFailureAborts ==
    (pc = "read_image_tiles" /\ EreturnValue' /= "GIMP_PDB_SUCCESS") =>
        /\ pc' = "read_failed"
        /\ EreturnValue' = "GIMP_PDB_EXECUTION_ERROR"
        /\ AdataTiles' = AdataTiles
        /\ AtileMap' = AtileMap
        /\ UItileCount' = UItileCount
        /\ compared' = compared
        /\ written' = written

\* the entry of image2gb_export_image changes no tile, tilemap entry or count
EntryKeepsBuffers ==
    (pc' = "read_image_tiles" /\ pc /= "read_image_tiles") =>
        /\ AdataTiles' = AdataTiles
        /\ AtileMap' = AtileMap
        /\ UItileCount' = UItileCount

\* an export that returned on a read failure: neither image2gb_check_duplicates
\* nor image2gb_write_files has run, and the tiles are those of the entry
AbortedExport ==
    (pc = "read_failed") =>
        /\ EreturnValue = "GIMP_PDB_EXECUTION_ERROR"
        /\ AdataTiles = entryTiles
        /\ warned = FALSE
        /\ written = "nothing"
        /\ writeFailure = "none"

\* after the abort nothing runs until the next call of image2gb_export_image
AbortedExportEnds == (pc = "read_failed") => (pc' \in {"read_failed", "read_image_tiles"})

\* C22: when image2gb_read_image_tiles does not return success, the export
\* returns that status at once: image2gb_check_duplicates and
\* image2gb_write_files are not run, and the tile words, the duplicate flags,
\* the tilemap and UItileCount keep the values they had before the call.
Theorem_C22 ==
    /\ [][ReadFailureAborts]_vars
    /\ [][EntryKeepsBuffers]_vars
    /\ []AbortedExport
    /\ [][AbortedExportEnds]_vars

\* a second export has failed to read, and the tiles, flags, tilemap and count
\* of the first export (tiles A, B, A) are still in place
Witness_C22 ==
    /\ pc = "read_failed"
    /\ calls = 2
    /\ EreturnValue = "GIMP_PDB_EXECUTION_ERROR"
    /\ AdataTiles[2].duplicate = TRUE
    /\ AdataTiles[0].row[1] /= 0
    /\ AtileMap[1] = 1
    /\ UItileCount = 2

RECURSIVE PlaneByteOf(_, _, _, _)
\* the plane byte of row r of the raw tile for bit b of the pixels (0 low,
\* 1 high), columns c .. 7: bit 7-c of the byte is bit b of pixel (r, c)
PlaneByteOf(raw, r, b, c) ==
    IF c > 7 THEN 0
    ELSE (Bit(raw[(r * IMAGE2GB_TILE_SIZE) + c], b) * (2 ^ (7 - c)))
             + PlaneByteOf(raw, r, b, c + 1)

\* the pure planar encoding of a raw tile: (low_plane << 8) | high_plane per row
PureEncoding(raw) ==
    [r \in Rows |-> (PlaneByteOf(raw, r, 0, 0) * 256) + PlaneByteOf(raw, r, 1, 0)]

\* the raw tile image2gb_read_image_tiles hands to image2gb_convert_tile for
\* position p of the grid
RawTile(p) ==
    gegl_buffer_get(POimage,
                    IMAGE2GB_TILE_SIZE * (p % UItileWidth),
                    IMAGE2GB_TILE_SIZE * (p \div UItileWidth))

\* bit n of x | y
BitOr(x, y, n) == IF Bit(x, n) = 1 \/ Bit(y, n) = 1 THEN 1 ELSE 0

\* every bit set in the row words before is set in the row words enc
NoBitOutside(before, enc) ==
    \A r \in Rows, n \in 0 .. 15 : Bit(before[r], n) = 1 => Bit(enc[r], n) = 1

\* the calls of image2gb_convert_tile of one extraction: each destination row
\* word becomes its old value OR the pure encoding of the pixel row, and the
\* tile is the pure encoding exactly when no other bit was set before
ConvertOrsIn ==
    (pc = "read_image_tiles" /\ pc' = "check_duplicates") =>
        \A p \in Used :
            \A enc \in {PureEncoding(RawTile(p))} :
                /\ \A r \in Rows, n \in 0 .. 15 :
                      Bit(AdataTiles'[p].row[r], n)
                          = BitOr(AdataTiles[p].row[r], enc[r], n)
                /\ (AdataTiles'[p].row = enc) <=> NoBitOutside(AdataTiles[p].row, enc)

\* no step clears a bit of a row word of AdataTiles
RowBitsKept ==
    \/ AdataTiles' = AdataTiles
    \/ \A p \in DOMAIN AdataTiles :
          \/ AdataTiles'[p].row = AdataTiles[p].row
          \/ \A r \in Rows, n \in 0 .. 15 :
                Bit(AdataTiles[p].row[r], n) = 1 => Bit(AdataTiles'[p].row[r], n) = 1

\* C23: image2gb_convert_tile only ORs bits into the destination: each row word
\* after the call is its value before the call OR the pure planar encoding of
\* the pixel row, so the tile is the pure encoding of the raw tile if and only
\* if no bit outside that encoding was set beforehand; no step of an export
\* clears a bit of the row words of AdataTiles.
Theorem_C23 ==
    /\ [][ConvertOrsIn]_vars
    /\ [][RowBitsKept]_vars

\* a second export has extracted the worked-example tile over the words 0xFFFF
\* of the first: position 0 holds the OR of both, not the pure encoding 0xA529
Witness_C23 ==
    /\ pc = "check_duplicates"
    /\ calls = 2
    /\ entryTiles[0].row[0] = 65535
    /\ PureEncoding(RawTile(0))[0] = 42281
    /\ AdataTiles[0].row[0] = 65535

\* the positions of AdataTiles, inside the grid of the current image or not,
\* whose duplicate flag is set
FlaggedTiles == {p \in DOMAIN AdataTiles : AdataTiles[p].duplicate = TRUE}

\* a step never resets the duplicate flag of a DataTile: the set of flagged
\* positions only grows
FlagsKept == (AdataTiles' = AdataTiles) \/ (FlaggedTiles \subseteq FlaggedTiles')

\* the iteration of the scan on an anchor that was flagged when the export was
\* called: nothing is compared, and no flag or tilemap entry is written
StaleFlagSkipped ==
    (pc = "scan" /\ tile < UItileCount /\ entryTiles[tile].duplicate = TRUE) =>
        /\ compared' = compared
        /\ UIduplicateCount' = UIduplicateCount
        /\ \A p \in DOMAIN AdataTiles : AdataTiles'[p].duplicate = AdataTiles[p].duplicate
        /\ AtileMap'[tile] = AtileMap[tile]
        /\ tile' = tile + 1

\* C24: no operation resets a duplicate flag to FALSE, so over the export calls
\* of one process the set of flagged positions only grows, and a position
\* flagged by an earlier call is skipped as anchor by every later call whatever
\* its new content.
Theorem_C24 ==
    /\ [][FlagsKept]_vars
    /\ [][StaleFlagSkipped]_vars

\* the scan of a second export has skipped anchor 1, flagged by the first
\* export, although its content is new and differs from that of position 0
Witness_C24 ==
    /\ pc = "scan"
    /\ calls = 2
    /\ tile = 2
    /\ entryTiles[1].duplicate = TRUE
    /\ AdataTiles[1].duplicate = TRUE
    /\ AdataTiles[1].row /= entryTiles[1].row
    /\ AdataTiles[1].row /= AdataTiles[0].row
    /\ compared = 1

\* the tile lines image2gb_write_tile_data prints for the current state
TileLines == image2gb_write_tile_lines(AdataTiles, UItileWidth, UItileHeight, UItileCount)

\* C25: after an export from fresh buffers the number of positions of the grid
\* not flagged duplicate equals UItileCount, no position being counted twice in
\* UIduplicateCount, so image2gb_write_tile_data prints exactly UItileCount tile
\* lines and only the last one has no trailing comma.
Theorem_C25 ==
    (Deduplicated /\ FreshAtEntry) =>
        /\ Cardinality(Used \ FlaggedPositions) = UItileCount
        /\ UIduplicateCount = Cardinality(FlaggedPositions)
        /\ Len(TileLines) = UItileCount
        /\ \A i \in 1 .. Len(TileLines) : TileLines[i].comma <=> (i < Len(TileLines))

\* the tiles A, B, A have been deduplicated from fresh buffers, the flagged
\* position 2 being compared a second time by anchor 1: two lines are printed,
\* the first with a comma and the second without
Witness_C25 ==
    /\ pc = "write"
    /\ FreshAtEntry
    /\ TileCountTotal = 3
    /\ AdataTiles[2].duplicate = TRUE
    /\ AdataTiles[1].duplicate = FALSE
    /\ compared = 3
    /\ UItileCount = 2
    /\ Len(TileLines) = 2
    /\ TileLines[1].comma = TRUE
    /\ TileLines[2].comma = FALSE

====
